---- MODULE Spec2Model ----
(***************************************************************************)
(* Model of scripts/process-artifact-json.py: the tolerant JSON parser     *)
(* (robust_json_loads and its three repair stages) and the per-file loop   *)
(* that flattens every parsed artifact into one CSV row.                   *)
(*                                                                         *)
(* A text is a sequence of characters; a character is a one-character      *)
(* string.  Indices are 1-based here, error positions are reported 0-based *)
(* as Python does.                                                         *)
(***************************************************************************)
EXTENDS Integers, Sequences, FiniteSets, TLC

\* ------------------------------------------------------------------------
\* Characters
\* ------------------------------------------------------------------------
QUOTE == "\""
BSLASH == "\\"
NL == "\n"
CR == "\r"
TAB == "\t"
FF == "\f"
SP == " "
\* control characters that have no TLA+ string escape, named by code point
BEL == "<0x07>"
BS == "<0x08>"
VT == "<0x0b>"

\* str.splitlines() line boundaries (the ones below 0x20)
LineBreaks == {NL, CR, VT, FF}
\* \s of the re module and str.rstrip()
ReWhitespace == {SP, TAB, NL, CR, VT, FF}
\* whitespace of the json scanner
JsonWhitespace == {SP, TAB, NL, CR}
\* characters json's strict string scanner rejects raw (code point < 0x20)
ControlChars == {NL, CR, TAB, FF, BEL, BS, VT}
AsciiLetters ==
  {"a","b","c","d","e","f","g","h","i","j","k","l","m","n","o","p","q","r",
   "s","t","u","v","w","x","y","z",
   "A","B","C","D","E","F","G","H","I","J","K","L","M","N","O","P","Q","R",
   "S","T","U","V","W","X","Y","Z"}
HexDigits ==
  {"0","1","2","3","4","5","6","7","8","9",
   "a","b","c","d","e","f","A","B","C","D","E","F"}

\* ------------------------------------------------------------------------
\* Sequence helpers (Python slicing)
\* ------------------------------------------------------------------------
Take(s, k) == SubSeq(s, 1, k)

Drop(s, k) == SubSeq(s, k + 1, Len(s))

MinOf(S) == CHOOSE x \in S : \A y \in S : x <= y

StartsWithAt(s, p, pat) ==
  /\ p + Len(pat) - 1 <= Len(s)
  /\ SubSeq(s, p, p + Len(pat) - 1) = pat

\* index of the first occurrence of c in s, 0 when absent (str.find + 1)
FindChar(s, c) ==
  LET ps == {k \in 1..Len(s) : s[k] = c}
  IN IF ps = {} THEN 0 ELSE MinOf(ps)

RECURSIVE ReplaceFrom(_, _, _, _, _)
ReplaceFrom(s, c, rep, i, out) ==
  IF i > Len(s) THEN out
  ELSE ReplaceFrom(s, c, rep, i + 1,
                   IF s[i] = c THEN out \o rep ELSE Append(out, s[i]))

\* str.replace(c, rep) for a one-character c
Replace(s, c, rep) == ReplaceFrom(s, c, rep, 1, <<>>)

RECURSIVE SplitFrom(_, _, _, _)
SplitFrom(text, i, cur, acc) ==
  IF i > Len(text) THEN (IF cur = <<>> THEN acc ELSE Append(acc, cur))
  ELSE IF text[i] = CR /\ i + 1 <= Len(text) /\ text[i + 1] = NL
       THEN SplitFrom(text, i + 2, <<>>, Append(acc, cur))
  ELSE IF text[i] \in LineBreaks
       THEN SplitFrom(text, i + 1, <<>>, Append(acc, cur))
  ELSE SplitFrom(text, i + 1, Append(cur, text[i]), acc)

\* str.splitlines(): no line keeps its boundary, no empty last line
splitlines(text) == SplitFrom(text, 1, <<>>, <<>>)

RECURSIVE JoinFrom(_, _, _)
JoinFrom(lines, k, out) ==
  IF k > Len(lines) THEN out
  ELSE JoinFrom(lines, k + 1,
                IF k = 1 THEN lines[k] ELSE out \o <<NL>> \o lines[k])

\* "\n".join(lines)
JoinLines(lines) == JoinFrom(lines, 1, <<>>)

RECURSIVE rstrip(_)
rstrip(line) ==
  IF line # <<>> /\ line[Len(line)] \in ReWhitespace
  THEN rstrip(Take(line, Len(line) - 1))
  ELSE line

\* ------------------------------------------------------------------------
\* fix_invalid_escapes: re.sub(r'\\(?!["\\/bfnrtu])', r'\\\\', text)
\* ------------------------------------------------------------------------
EscapeIndicators == {QUOTE, BSLASH, "/", "b", "f", "n", "r", "t", "u"}

\* variant of InvalidEscapeAt: the pattern \\[^"\\/bfnrtu], which needs a
\* character after the backslash
InvalidEscapeAt_NeedsNextChar(text, i) ==
  /\ text[i] = BSLASH
  /\ i + 1 <= Len(text)
  /\ text[i + 1] \notin EscapeIndicators

\* the pattern matches at i: a backslash whose next character, if any, is
\* not an escape indicator
InvalidEscapeAt(text, i) ==
  /\ text[i] = BSLASH
  /\ ~(i + 1 <= Len(text) /\ text[i + 1] \in EscapeIndicators)

RECURSIVE NormFrom(_, _, _)
NormFrom(text, i, out) ==
  IF i > Len(text) THEN out
  ELSE NormFrom(text, i + 1,
                IF InvalidEscapeAt(text, i) THEN out \o <<BSLASH, BSLASH>>
                ELSE Append(out, text[i]))

fix_invalid_escapes(text) == NormFrom(text, 1, <<>>)

\* ------------------------------------------------------------------------
\* escape_control_chars_in_strings:
\*   re.sub(r'"(?:\\.|[^"\\])*"', replace_control, text, flags=re.DOTALL)
\* ------------------------------------------------------------------------
\* variant of StringMatchEnd: the pattern "[^"]*", where a backslash does not
\* escape the quote after it
StringMatchEnd_NoEscapes(text, j) ==
  IF \E k \in j..Len(text) : text[k] = QUOTE
  THEN MinOf({k \in j..Len(text) : text[k] = QUOTE})
  ELSE 0

RECURSIVE StringMatchEnd(_, _)
\* the literal opened just before j: index of its closing quote, 0 when the
\* pattern does not match from that opening quote
StringMatchEnd(text, j) ==
  IF j > Len(text) THEN 0
  ELSE IF text[j] = QUOTE THEN j
  ELSE IF text[j] = BSLASH
       THEN (IF j + 1 <= Len(text) THEN StringMatchEnd(text, j + 2) ELSE 0)
  ELSE StringMatchEnd(text, j + 1)

replace_control(s) ==
  LET inner == SubSeq(s, 2, Len(s) - 1)
      r1 == Replace(inner, NL, <<BSLASH, "n">>)
      r2 == Replace(r1, CR, <<BSLASH, "r">>)
      r3 == Replace(r2, TAB, <<BSLASH, "t">>)
  IN <<QUOTE>> \o r3 \o <<QUOTE>>

RECURSIVE EscFrom(_, _, _)
EscFrom(text, i, out) ==
  IF i > Len(text) THEN out
  ELSE IF text[i] = QUOTE /\ StringMatchEnd(text, i + 1) # 0
       THEN LET e == StringMatchEnd(text, i + 1)
            IN EscFrom(text, e + 1, out \o replace_control(SubSeq(text, i, e)))
  ELSE EscFrom(text, i + 1, Append(out, text[i]))

escape_control_chars_in_strings(text) == EscFrom(text, 1, <<>>)

\* ------------------------------------------------------------------------
\* fix_multiline_strings
\* ------------------------------------------------------------------------
RunKey == <<QUOTE, "r", "u", "n", QUOTE, ":">>

RECURSIVE SkipReWs(_, _)
SkipReWs(s, p) ==
  IF p <= Len(s) /\ s[p] \in ReWhitespace THEN SkipReWs(s, p + 1) ELSE p

\* variant of OpenMatchAt: group 2 is not held to be free of double quotes
OpenMatchAt_AnyTail(line, p) ==
  /\ StartsWithAt(line, p, RunKey)
  /\ LET q == SkipReWs(line, p + Len(RunKey))
     IN /\ q <= Len(line)
        /\ line[q] = QUOTE

\* ("run":\s*")([^"]*)$ matches with group 1 starting at p
OpenMatchAt(line, p) ==
  /\ StartsWithAt(line, p, RunKey)
  /\ LET q == SkipReWs(line, p + Len(RunKey))
     IN /\ q <= Len(line)
        /\ line[q] = QUOTE
        /\ \A k \in (q + 1)..Len(line) : line[k] # QUOTE

\* re.search of the opening pattern: leftmost match.  start1/start2 are the
\* 1-based indices of the first character of group 1 and of group 2.
re_search_open(line) ==
  LET ps == {p \in 1..Len(line) : OpenMatchAt(line, p)}
  IN IF ps = {} THEN [found |-> FALSE, start1 |-> 0, start2 |-> 0]
     ELSE LET p == MinOf(ps)
          IN [found |-> TRUE, start1 |-> p,
              start2 |-> SkipReWs(line, p + Len(RunKey)) + 1]

\* escapes the re module rewrites in a replacement template
ReplEscapes ==
  [c \in {"a", "b", "f", "n", "r", "t", "v", BSLASH} |->
     CASE c = "a" -> BEL
       [] c = "b" -> BS
       [] c = "f" -> FF
       [] c = "n" -> NL
       [] c = "r" -> CR
       [] c = "t" -> TAB
       [] c = "v" -> VT
       [] OTHER -> BSLASH]

RECURSIVE ExpandFrom(_, _, _)
\* the re module's expansion of the part of a replacement template that
\* follows the leading \1 (templates here hold no digits): a backslash at
\* the end or before any other ASCII letter is re.error, a backslash before
\* a non-letter stays as it is
ExpandFrom(tpl, i, out) ==
  IF i > Len(tpl) THEN [err |-> FALSE, text |-> out]
  ELSE IF tpl[i] # BSLASH THEN ExpandFrom(tpl, i + 1, Append(out, tpl[i]))
  ELSE IF i = Len(tpl) THEN [err |-> TRUE, text |-> <<>>]
  ELSE IF tpl[i + 1] \in DOMAIN ReplEscapes
       THEN ExpandFrom(tpl, i + 2, Append(out, ReplEscapes[tpl[i + 1]]))
  ELSE IF tpl[i + 1] \in AsciiLetters THEN [err |-> TRUE, text |-> <<>>]
  ELSE ExpandFrom(tpl, i + 2, out \o <<BSLASH, tpl[i + 1]>>)

\* re.sub(r'("run":\s*")[^"]*$', r'\1' + fixed_string, last)
re_sub_run(fixed_string, last) ==
  LET x == ExpandFrom(fixed_string, 1, <<>>)
      m == re_search_open(last)
  IN IF x.err THEN x
     ELSE IF ~m.found THEN [err |-> FALSE, text |-> last]
     ELSE [err |-> FALSE,
           text |-> Take(last, m.start1 - 1)
                      \o SubSeq(last, m.start1, m.start2 - 1) \o x.text]

\* state of the line loop before its first line
JoinerInit ==
  [fixed_lines |-> <<>>, in_multiline |-> FALSE, multiline_accum |-> <<>>,
   err |-> FALSE]

\* variant of JoinerStep: a line that opens nothing is emitted stripped
JoinerStep_EmitsStripped(st, line) ==
  IF st.err THEN st
  ELSE IF ~st.in_multiline THEN
    LET m == re_search_open(line)
    IN IF m.found /\ (rstrip(line) = <<>> \/ rstrip(line)[Len(rstrip(line))] # QUOTE)
       THEN [st EXCEPT !.in_multiline = TRUE,
                       !.multiline_accum = Drop(line, m.start2 - 1),
                       !.fixed_lines = Append(st.fixed_lines, Take(line, m.start2 - 1))]
       ELSE [st EXCEPT !.fixed_lines = Append(st.fixed_lines, rstrip(line))]
  ELSE IF FindChar(line, QUOTE) # 0 THEN
    LET idx == FindChar(line, QUOTE)
        accum == st.multiline_accum \o <<NL>> \o Take(line, idx - 1)
        fixed_string == Replace(accum, NL, <<BSLASH, "n">>)
        n == Len(st.fixed_lines)
        r == re_sub_run(fixed_string, st.fixed_lines[n])
    IN IF r.err THEN [st EXCEPT !.err = TRUE]
       ELSE [st EXCEPT !.fixed_lines =
                          Append([st.fixed_lines EXCEPT ![n] = r.text],
                                 Drop(line, idx - 1)),
                       !.in_multiline = FALSE,
                       !.multiline_accum = <<>>]
  ELSE [st EXCEPT !.multiline_accum = st.multiline_accum \o <<NL>> \o line]

\* one iteration of the line loop (the body of "for line in lines")
JoinerStep(st, line) ==
  IF st.err THEN st
  ELSE IF ~st.in_multiline THEN
    LET m == re_search_open(line)
    IN IF m.found /\ (rstrip(line) = <<>> \/ rstrip(line)[Len(rstrip(line))] # QUOTE)
       THEN [st EXCEPT !.in_multiline = TRUE,
                       !.multiline_accum = Drop(line, m.start2 - 1),
                       !.fixed_lines = Append(st.fixed_lines, Take(line, m.start2 - 1))]
       ELSE [st EXCEPT !.fixed_lines = Append(st.fixed_lines, line)]
  ELSE IF FindChar(line, QUOTE) # 0 THEN
    LET idx == FindChar(line, QUOTE)
        accum == st.multiline_accum \o <<NL>> \o Take(line, idx - 1)
        fixed_string == Replace(accum, NL, <<BSLASH, "n">>)
        n == Len(st.fixed_lines)
        r == re_sub_run(fixed_string, st.fixed_lines[n])
    IN IF r.err THEN [st EXCEPT !.err = TRUE]
       ELSE [st EXCEPT !.fixed_lines =
                          Append([st.fixed_lines EXCEPT ![n] = r.text],
                                 Drop(line, idx - 1)),
                       !.in_multiline = FALSE,
                       !.multiline_accum = <<>>]
  ELSE [st EXCEPT !.multiline_accum = st.multiline_accum \o <<NL>> \o line]

RECURSIVE JoinerRun(_, _, _)
JoinerRun(lines, k, st) ==
  IF k > Len(lines) THEN st ELSE JoinerRun(lines, k + 1, JoinerStep(st, lines[k]))

\* variant of fix_multiline_strings: text still accumulated at the end of the
\* input is put back after the opening quote
fix_multiline_strings_FlushAtEnd(text) ==
  LET st == JoinerRun(splitlines(text), 1, JoinerInit)
      n == Len(st.fixed_lines)
  IN IF st.err THEN [err |-> TRUE, text |-> <<>>]
     ELSE IF st.in_multiline
          THEN [err |-> FALSE,
                text |-> JoinLines([st.fixed_lines EXCEPT
                                      ![n] = st.fixed_lines[n] \o st.multiline_accum])]
     ELSE [err |-> FALSE, text |-> JoinLines(st.fixed_lines)]

\* err: re.error was raised; text: the returned text otherwise
fix_multiline_strings(text) ==
  LET st == JoinerRun(splitlines(text), 1, JoinerInit)
  IN IF st.err THEN [err |-> TRUE, text |-> <<>>]
     ELSE [err |-> FALSE, text |-> JoinLines(st.fixed_lines)]

\* ------------------------------------------------------------------------
\* json.loads: the strict parser.  A parsed value is a node
\*   [t |-> type, s |-> characters of a string or key, kids |-> children];
\* the children of an "object" are "member" nodes (key in s, value in kids).
\* Texts here hold no digits, so numbers do not arise.
\* ------------------------------------------------------------------------
Node(t, s, kids) == [t |-> t, s |-> s, kids |-> kids]

NoValue == Node("none", <<>>, <<>>)

\* a successful parse step: the value and the index after it
Parsed(val, end) == [ok |-> TRUE, val |-> val, end |-> end, msg |-> "", pos |-> 0]

\* json.JSONDecodeError(msg, doc, pos)
JSONDecodeError(msg, pos) ==
  [ok |-> FALSE, val |-> NoValue, end |-> 0, msg |-> msg, pos |-> pos]

RECURSIVE SkipJsonWs(_, _)
SkipJsonWs(s, p) ==
  IF p <= Len(s) /\ s[p] \in JsonWhitespace THEN SkipJsonWs(s, p + 1) ELSE p

\* json.decoder.BACKSLASH
JsonEscapes ==
  [c \in {QUOTE, BSLASH, "/", "b", "f", "n", "r", "t"} |->
     CASE c = "b" -> BS
       [] c = "f" -> FF
       [] c = "n" -> NL
       [] c = "r" -> CR
       [] c = "t" -> TAB
       [] OTHER -> c]

RECURSIVE scanstring(_, _, _, _)
\* j: next character to read; q: index of the opening quote
scanstring(s, j, q, acc) ==
  IF j > Len(s) THEN JSONDecodeError("Unterminated string starting at", q - 1)
  ELSE IF s[j] = QUOTE THEN Parsed(Node("string", acc, <<>>), j + 1)
  ELSE IF s[j] \in ControlChars
       THEN JSONDecodeError("Invalid control character at", j - 1)
  ELSE IF s[j] # BSLASH THEN scanstring(s, j + 1, q, Append(acc, s[j]))
  ELSE IF j + 1 > Len(s)
       THEN JSONDecodeError("Unterminated string starting at", q - 1)
  ELSE IF s[j + 1] = "u"
       THEN IF j + 5 <= Len(s) /\ \A k \in (j + 2)..(j + 5) : s[k] \in HexDigits
            THEN scanstring(s, j + 6, q,
                   Append(acc, "\\u" \o s[j + 2] \o s[j + 3] \o s[j + 4] \o s[j + 5]))
            ELSE JSONDecodeError("Invalid \\uXXXX escape", j)
  ELSE IF s[j + 1] \in DOMAIN JsonEscapes
       THEN scanstring(s, j + 2, q, Append(acc, JsonEscapes[s[j + 1]]))
  ELSE JSONDecodeError("Invalid \\escape", j - 1)

\* dict assignment d[key] = val on the member list of an object
DictSet(members, key, val) ==
  IF \E k \in 1..Len(members) : members[k].s = key
  THEN [k \in 1..Len(members) |->
          IF members[k].s = key THEN Node("member", key, <<val>>) ELSE members[k]]
  ELSE Append(members, Node("member", key, <<val>>))

RECURSIVE scan_once(_, _), JSONObjectMembers(_, _, _), JSONArrayItems(_, _, _)

\* k: index after the opening quote of the next key
JSONObjectMembers(s, k, acc) ==
  LET key == scanstring(s, k, k - 1, <<>>)
  IN IF ~key.ok THEN key
     ELSE LET c == SkipJsonWs(s, key.end)
          IN IF c > Len(s) \/ s[c] # ":"
             THEN JSONDecodeError("Expecting ':' delimiter", c - 1)
             ELSE LET v == scan_once(s, SkipJsonWs(s, c + 1))
                  IN IF ~v.ok THEN v
                     ELSE LET e == SkipJsonWs(s, v.end)
                              acc2 == DictSet(acc, key.val.s, v.val)
                          IN IF e <= Len(s) /\ s[e] = "}"
                             THEN Parsed(Node("object", <<>>, acc2), e + 1)
                             ELSE IF e > Len(s) \/ s[e] # ","
                             THEN JSONDecodeError("Expecting ',' delimiter", e - 1)
                             ELSE LET n == SkipJsonWs(s, e + 1)
                                  IN IF n > Len(s) \/ s[n] # QUOTE
                                     THEN JSONDecodeError(
                                            "Expecting property name enclosed in double quotes",
                                            n - 1)
                                     ELSE JSONObjectMembers(s, n + 1, acc2)

\* i: index after the opening brace
JSONObject(s, i) ==
  LET j == SkipJsonWs(s, i)
  IN IF j <= Len(s) /\ s[j] = "}" THEN Parsed(Node("object", <<>>, <<>>), j + 1)
     ELSE IF j > Len(s) \/ s[j] # QUOTE
     THEN JSONDecodeError("Expecting property name enclosed in double quotes", j - 1)
     ELSE JSONObjectMembers(s, j + 1, <<>>)

\* j: index of the next item
JSONArrayItems(s, j, acc) ==
  LET v == scan_once(s, j)
  IN IF ~v.ok THEN v
     ELSE LET e == SkipJsonWs(s, v.end)
              acc2 == Append(acc, v.val)
          IN IF e <= Len(s) /\ s[e] = "]"
             THEN Parsed(Node("array", <<>>, acc2), e + 1)
             ELSE IF e > Len(s) \/ s[e] # ","
             THEN JSONDecodeError("Expecting ',' delimiter", e - 1)
             ELSE JSONArrayItems(s, SkipJsonWs(s, e + 1), acc2)

\* i: index after the opening bracket
JSONArray(s, i) ==
  LET j == SkipJsonWs(s, i)
  IN IF j <= Len(s) /\ s[j] = "]" THEN Parsed(Node("array", <<>>, <<>>), j + 1)
     ELSE JSONArrayItems(s, j, <<>>)

scan_once(s, i) ==
  IF i > Len(s) THEN JSONDecodeError("Expecting value", i - 1)
  ELSE IF s[i] = QUOTE THEN scanstring(s, i + 1, i, <<>>)
  ELSE IF s[i] = "{" THEN JSONObject(s, i + 1)
  ELSE IF s[i] = "[" THEN JSONArray(s, i + 1)
  ELSE IF StartsWithAt(s, i, <<"n", "u", "l", "l">>)
       THEN Parsed(Node("null", <<>>, <<>>), i + 4)
  ELSE IF StartsWithAt(s, i, <<"t", "r", "u", "e">>)
       THEN Parsed(Node("true", <<>>, <<>>), i + 4)
  ELSE IF StartsWithAt(s, i, <<"f", "a", "l", "s", "e">>)
       THEN Parsed(Node("false", <<>>, <<>>), i + 5)
  ELSE JSONDecodeError("Expecting value", i - 1)

\* json.loads(text): either a value (ok) or the JSONDecodeError (msg, pos)
json_loads(text) ==
  LET v == scan_once(text, SkipJsonWs(text, 1))
  IN IF ~v.ok THEN v
     ELSE LET e == SkipJsonWs(text, v.end)
          IN IF e <= Len(text) THEN JSONDecodeError("Extra data", e - 1)
             ELSE v

\* ------------------------------------------------------------------------
\* json.dumps(value) with the default separators and ensure_ascii
\* ------------------------------------------------------------------------
\* json.encoder.ESCAPE_DCT on the characters of this model; a \uXXXX code
\* point read by scanstring is written back as the same escape
encode_char(c) ==
  CASE c = QUOTE -> <<BSLASH, QUOTE>>
    [] c = BSLASH -> <<BSLASH, BSLASH>>
    [] c = NL -> <<BSLASH, "n">>
    [] c = CR -> <<BSLASH, "r">>
    [] c = TAB -> <<BSLASH, "t">>
    [] c = BS -> <<BSLASH, "b">>
    [] c = FF -> <<BSLASH, "f">>
    [] c = BEL -> <<BSLASH, "u", "0", "0", "0", "7">>
    [] c = VT -> <<BSLASH, "u", "0", "0", "0", "b">>
    [] OTHER -> <<c>>

RECURSIVE EncodeFrom(_, _, _)
EncodeFrom(str, i, out) ==
  IF i > Len(str) THEN out
  ELSE EncodeFrom(str, i + 1, out \o encode_char(str[i]))

encode_string(str) == <<QUOTE>> \o EncodeFrom(str, 1, <<>>) \o <<QUOTE>>

RECURSIVE json_dumps(_), DumpItems(_, _, _)
DumpItems(kids, k, out) ==
  IF k > Len(kids) THEN out
  ELSE DumpItems(kids, k + 1,
         out \o (IF k = 1 THEN <<>> ELSE <<",", SP>>) \o json_dumps(kids[k]))

json_dumps(v) ==
  CASE v.t = "string" -> encode_string(v.s)
    [] v.t = "null" -> <<"n", "u", "l", "l">>
    [] v.t = "true" -> <<"t", "r", "u", "e">>
    [] v.t = "false" -> <<"f", "a", "l", "s", "e">>
    [] v.t = "array" -> <<"[">> \o DumpItems(v.kids, 1, <<>>) \o <<"]">>
    [] v.t = "object" -> <<"{">> \o DumpItems(v.kids, 1, <<>>) \o <<"}">>
    [] v.t = "member" -> encode_string(v.s) \o <<":", SP>> \o json_dumps(v.kids[1])

\* ------------------------------------------------------------------------
\* Row building
\* ------------------------------------------------------------------------
fieldnames ==
  << <<"_","c","r","e","a","t","e","d">>,
     <<"_","d","e","l","e","t","e","d">>,
     <<"_","e","t","a","g">>,
     <<"_","i","d">>,
     <<"_","l","i","n","k","s">>,
     <<"_","u","p","d","a","t","e","d">>,
     <<"a","d","d","e","d","_","v","e","r","s","i","o","n">>,
     <<"b","a","s","e","_","b","r","a","n","c","h">>,
     <<"b","r","a","n","c","h">>,
     <<"b","u","i","l","d","_","s","y","s","t","e","m">>,
     <<"c","a","c","h","e","d">>,
     <<"c","i","_","s","e","r","v","i","c","e">>,
     <<"c","u","r","r","e","n","t","_","i","m","a","g","e","_","t","a","g">>,
     <<"d","e","p","r","e","c","a","t","e","d","_","v","e","r","s","i","o","n">>,
     <<"f","a","i","l","e","d","_","j","o","b">>,
     <<"f","i","l","t","e","r","e","d","_","r","e","a","s","o","n">>,
     <<"i","m","a","g","e","_","t","a","g">>,
     <<"i","s","_","e","r","r","o","r","_","p","a","s","s">>,
     <<"l","a","n","g">>,
     <<"m","a","t","c","h">>,
     <<"m","e","r","g","e","d","_","a","t">>,
     <<"m","e","t","r","i","c","s">>,
     <<"p","a","s","s","e","d","_","j","o","b">>,
     <<"p","r","_","n","u","m">>,
     <<"r","e","p","o">>,
     <<"r","e","p","o","_","m","i","n","e","d","_","v","e","r","s","i","o","n">>,
     <<"r","e","p","r","o","d","u","c","e","_","a","t","t","e","m","p","t","s">>,
     <<"r","e","p","r","o","d","u","c","e","_","s","u","c","c","e","s","s","e","s">>,
     <<"r","e","p","r","o","d","u","c","e","d">>,
     <<"r","e","p","r","o","d","u","c","i","b","i","l","i","t","y","_","s","t","a","t","u","s">>,
     <<"s","t","a","b","i","l","i","t","y">>,
     <<"s","t","a","t","u","s">>,
     <<"t","e","s","t","_","f","r","a","m","e","w","o","r","k">> >>

image_tag == <<"i","m","a","g","e","_","t","a","g">>

current_image_tag == <<"c","u","r","r","e","n","t","_","i","m","a","g","e","_","t","a","g">>

EmptyString == Node("string", <<>>, <<>>)

\* artifact.get(key, '') on a dict
dict_get(artifact, key) ==
  LET ks == {k \in 1..Len(artifact.kids) : artifact.kids[k].s = key}
  IN IF ks = {} THEN EmptyString
     ELSE artifact.kids[CHOOSE k \in ks : TRUE].kids[1]

\* variant of serialize_field: without the test for None
serialize_field_KeepsNone(value) ==
  IF value.t \in {"object", "array"} THEN Node("string", json_dumps(value), <<>>)
  ELSE value

serialize_field(value) ==
  IF value.t = "null" THEN EmptyString
  ELSE IF value.t \in {"object", "array"} THEN Node("string", json_dumps(value), <<>>)
  ELSE value

\* the value the loop looks up for a field
field_value(artifact, field) ==
  IF field = current_image_tag THEN dict_get(artifact, image_tag)
  ELSE dict_get(artifact, field)

\* the row dict, as its items in insertion order
build_row(artifact) ==
  [k \in 1..Len(fieldnames) |->
     [field |-> fieldnames[k],
      value |-> serialize_field(field_value(artifact, fieldnames[k]))]]

\* csv.DictWriter.writerow: the cells of a row in the order of fieldnames
writerow(row) ==
  [k \in 1..Len(fieldnames) |->
     LET ks == {j \in 1..Len(row) : row[j].field = fieldnames[k]}
     IN IF ks = {} THEN EmptyString ELSE row[CHOOSE j \in ks : TRUE].value]

\* ------------------------------------------------------------------------
\* Inputs: the contents a file of the input directory may have
\* ------------------------------------------------------------------------
\* files the glob may return
MaxFiles == 2
\* lines that follow the opening line of a "run" value
MaxCont == 2
\* length of the texts the repair stages are applied to on their own
MaxLen == 4
\* applications of repair stages to one such text
MaxApply == 2

FixedDocs ==
  { <<>>,
    <<"{","}">>,
    <<"[","]">>,
    <<"\"","x","\"">>,
    <<"n","u","l","l">>,
    <<"{","\"","l","a","n","g","\"",":","\"","x","\"","}">>,
    <<"{","\"","i","m","a","g","e","_","t","a","g","\"",":","\"","x","\"",",","\"","c","u","r","r","e","n","t","_","i","m","a","g","e","_","t","a","g","\"",":","\"","n","\"","}">>,
    <<"{","\"","r","e","p","o","\"",":","{","\"","x","\"",":","[","n","u","l","l","]","}",",","\"","l","a","n","g","\"",":","n","u","l","l","}">>,
    <<"{">>,
    <<"{","\"","l","a","n","g","\"",":","\"","x","\"">>,
    <<"{","\"","l","a","n","g","\"",":","\"","\\","x","\"","}">>,
    <<"{","\"","l","a","n","g","\"",":","\"","x","\t","n","\"","}">>,
    <<"{","\"","l","a","n","g","\"",":","\"","x","\"","}"," ","x">>,
    <<"\n">> }

Openers == {RunKey \o <<QUOTE>>, RunKey \o <<SP, QUOTE>>}

Pres == {<<"{">>, <<"{", QUOTE, "l", "a", "n", "g", QUOTE, ":", QUOTE, "x", QUOTE, ",", NL>>}

Firsts == {<<>>, <<"x">>, <<BSLASH, "x">>}

ContLines == {<<"n">>, <<"u", BSLASH>>, <<BSLASH, QUOTE, "r">>}

Tails ==
  {<<QUOTE, "}">>, <<"}">>, <<>>,
   <<QUOTE, ",", NL, QUOTE, "l", "a", "n", "g", QUOTE, ":", QUOTE, "x", QUOTE, "}">>}

\* all sequences over S of length at most n
RECURSIVE SeqsUpTo(_, _)
SeqsUpTo(S, n) ==
  IF n = 0 THEN {<<>>}
  ELSE LET shorter == SeqsUpTo(S, n - 1)
       IN shorter \cup {Append(q, x) : q \in {r \in shorter : Len(r) = n - 1}, x \in S}

RECURSIVE ContText(_, _, _)
\* the continuation lines, each after a line break
ContText(conts, k, out) ==
  IF k > Len(conts) THEN out
  ELSE ContText(conts, k + 1, out \o <<NL>> \o conts[k])

\* a document whose "run" value opens with `first` and goes on over `conts`
RunDoc(pre, opener, first, conts, tail) ==
  pre \o opener \o first \o ContText(conts, 1, <<>>) \o tail

RunDocs ==
  {RunDoc(pre, opener, first, conts, tail) :
     pre \in Pres, opener \in Openers, first \in Firsts,
     conts \in SeqsUpTo(ContLines, MaxCont), tail \in Tails}

Texts == FixedDocs \cup RunDocs

\* a file: its contents and whether open() succeeds on it
Files ==
  [text : Texts, readable : {TRUE}]
    \cup [text : {<<>>, <<"{", "}">>}, readable : {FALSE}]

FnChars == {QUOTE, BSLASH, NL, CR, TAB, "x", "n"}

FnTexts == SeqsUpTo(FnChars, MaxLen)

\* ------------------------------------------------------------------------
\* State
\* ------------------------------------------------------------------------
VARIABLES
  nfiles,          \* number of files glob.glob returns
  handled,         \* files the for loop has taken so far
  pc,              \* position of the script
  file,            \* the file of the current iteration
  calls,           \* calls of robust_json_loads in the current iteration
  parsed_ok,       \* calls of robust_json_loads that returned a document so far
  text,            \* the text read from the file, argument of robust_json_loads
  original_error,  \* robust_json_loads: the error of the first parse
  cleaned_text,    \* clean_json_text: the text after the stages run so far
  stages,          \* the repair stages run in the current call, with input and output
  artifact,        \* the document robust_json_loads returned
  exc,             \* the exception being raised
  processed_files,
  skipped_files,
  invalid_files,
  data_rows,
  csv,             \* the file written at the end
  lines,           \* fix_multiline_strings: text.splitlines()
  line_no,         \* fix_multiline_strings: the line the for loop is at
  fixed_lines,
  in_multiline,
  multiline_accum

\* the locals of fix_multiline_strings
joiner_locals == <<lines, line_no, fixed_lines, in_multiline, multiline_accum>>

vars ==
  <<nfiles, handled, pc, file, calls, parsed_ok, text, original_error, cleaned_text, stages,
    artifact, exc, processed_files, skipped_files, invalid_files, data_rows, csv,
    lines, line_no, fixed_lines, in_multiline, multiline_accum>>

\* outside a call of fix_multiline_strings its locals do not exist
NoJoinerCall ==
  /\ lines = <<>>
  /\ line_no = 0
  /\ fixed_lines = <<>>
  /\ in_multiline = FALSE
  /\ multiline_accum = <<>>

NoError == [msg |-> "", pos |-> 0]

\* the (msg, pos) of a failed json_loads
ErrorOf(r) == [msg |-> r.msg, pos |-> r.pos]

NoExc ==
  [type |-> "none", by |-> "", original_error |-> NoError,
   cleaned_error |-> NoError, text |-> <<>>]

\* JSONParseError(original_error, cleaned_error, text)
JSONParseError(oe, ce, t) ==
  [type |-> "JSONParseError", by |-> "robust_json_loads", original_error |-> oe,
   cleaned_error |-> ce, text |-> t]

\* any other exception, raised by `by`
OtherExc(type, by) ==
  [type |-> type, by |-> by, original_error |-> NoError,
   cleaned_error |-> NoError, text |-> <<>>]

NoFile == [text |-> <<>>, readable |-> TRUE]

NoCsv == [written |-> FALSE, header |-> <<>>, rows |-> <<>>]

Stage(name, in, out) == [stage |-> name, in |-> in, out |-> out]

Init ==
  /\ nfiles \in 0..MaxFiles
  /\ handled = 0
  /\ pc = "for"
  /\ file = NoFile
  /\ calls = 0
  /\ parsed_ok = 0
  /\ text = <<>>
  /\ original_error = NoError
  /\ cleaned_text = <<>>
  /\ stages = <<>>
  /\ artifact = NoValue
  /\ exc = NoExc
  /\ processed_files = 0
  /\ skipped_files = 0
  /\ invalid_files = 0
  /\ data_rows = <<>>
  /\ csv = NoCsv
  /\ NoJoinerCall

\* ------------------------------------------------------------------------
\* The per-file loop
\* ------------------------------------------------------------------------
\* the end of an iteration: the locals of robust_json_loads are gone, and
\* filename, text and artifact are rebound before the loop body reads them
\* again, so the values of the iteration that ends are dropped
EndIteration ==
  /\ file' = NoFile
  /\ calls' = 0
  /\ text' = <<>>
  /\ original_error' = NoError
  /\ cleaned_text' = <<>>
  /\ stages' = <<>>
  /\ artifact' = NoValue
  /\ pc' = "for"

\* for filename in glob.glob(...): the next file
ForNext ==
  /\ pc = "for"
  /\ handled < nfiles
  /\ \E f \in Files : file' = f
  /\ handled' = handled + 1
  /\ pc' = "getsize"
  /\ UNCHANGED <<joiner_locals, nfiles, parsed_ok, calls, text, original_error, cleaned_text, stages,
                 artifact, exc, processed_files, skipped_files, invalid_files,
                 data_rows, csv>>

\* the loop is exhausted
ForExit ==
  /\ pc = "for"
  /\ handled = nfiles
  /\ pc' = "write"
  /\ UNCHANGED <<joiner_locals, nfiles, parsed_ok, handled, file, calls, text, original_error, cleaned_text,
                 stages, artifact, exc, processed_files, skipped_files,
                 invalid_files, data_rows, csv>>

\* if os.path.getsize(filename) == 0: skip
SkipEmpty ==
  /\ pc = "getsize"
  /\ Len(file.text) = 0
  /\ skipped_files' = skipped_files + 1
  /\ EndIteration
  /\ UNCHANGED <<joiner_locals, nfiles, parsed_ok, handled, exc, processed_files, invalid_files,
                 data_rows, csv>>

\* variant of ReadFile: the size of the file is not looked at
ReadFile_NoSizeCheck ==
  /\ pc = "getsize"
  /\ file.readable
  /\ text' = file.text
  /\ calls' = calls + 1
  /\ stages' = <<>>
  /\ pc' = "strict"
  /\ UNCHANGED <<joiner_locals, nfiles, parsed_ok, handled, file, original_error, cleaned_text,
                 artifact, exc, processed_files, skipped_files, invalid_files,
                 data_rows, csv>>

\* open and read succeed; robust_json_loads(text) is entered
ReadFile ==
  /\ pc = "getsize"
  /\ Len(file.text) # 0
  /\ file.readable
  /\ text' = file.text
  /\ calls' = calls + 1
  /\ stages' = <<>>
  /\ pc' = "strict"
  /\ UNCHANGED <<joiner_locals, nfiles, parsed_ok, handled, file, original_error, cleaned_text, artifact, exc,
                 processed_files, skipped_files, invalid_files, data_rows, csv>>

\* open raises
ReadFails ==
  /\ pc = "getsize"
  /\ Len(file.text) # 0
  /\ ~file.readable
  /\ exc' = OtherExc("OSError", "open")
  /\ pc' = "except"
  /\ UNCHANGED <<joiner_locals, nfiles, parsed_ok, handled, file, calls, text, original_error, cleaned_text,
                 stages, artifact, processed_files, skipped_files, invalid_files,
                 data_rows, csv>>

\* ------------------------------------------------------------------------
\* robust_json_loads and clean_json_text
\* ------------------------------------------------------------------------
\* variant of first_parse: the text is always sent through clean_json_text
first_parse_AlwaysRepairs(t) ==
  [returns |-> FALSE, value |-> NoValue, error |-> ErrorOf(json_loads(t))]

\* the behaviour of robust_json_loads on its first parse: return the
\* document, or keep the error and enter clean_json_text(text)
first_parse(t) ==
  LET r == json_loads(t)
  IN IF r.ok THEN [returns |-> TRUE, value |-> r.val, error |-> NoError]
     ELSE [returns |-> FALSE, value |-> NoValue, error |-> ErrorOf(r)]

StrictParse ==
  /\ pc = "strict"
  /\ LET r == first_parse(text)
     IN IF r.returns
        THEN /\ artifact' = r.value
             /\ parsed_ok' = parsed_ok + 1
             /\ pc' = "row"
             /\ UNCHANGED <<original_error, cleaned_text>>
        ELSE /\ original_error' = r.error
             /\ cleaned_text' = text
             /\ pc' = "joiner"
             /\ UNCHANGED <<artifact, parsed_ok>>
  /\ UNCHANGED <<joiner_locals, nfiles, handled, file, calls, text, stages, exc, processed_files,
                 skipped_files, invalid_files, data_rows, csv>>

\* text = fix_multiline_strings(text)
RunJoiner ==
  /\ pc = "joiner"
  /\ LET r == fix_multiline_strings(cleaned_text)
     IN IF r.err
        THEN /\ exc' = OtherExc("re.error", "robust_json_loads")
             /\ pc' = "except"
             /\ UNCHANGED <<cleaned_text, stages>>
        ELSE /\ cleaned_text' = r.text
             /\ stages' = Append(stages, Stage("fix_multiline_strings", cleaned_text, r.text))
             /\ pc' = "normalizer"
             /\ UNCHANGED exc
  /\ UNCHANGED <<joiner_locals, nfiles, parsed_ok, handled, file, calls, text, original_error, artifact,
                 processed_files, skipped_files, invalid_files, data_rows, csv>>

\* text = fix_invalid_escapes(text)
RunNormalizer ==
  /\ pc = "normalizer"
  /\ cleaned_text' = fix_invalid_escapes(cleaned_text)
  /\ stages' = Append(stages, Stage("fix_invalid_escapes", cleaned_text, cleaned_text'))
  /\ pc' = "escaper"
  /\ UNCHANGED <<joiner_locals, nfiles, parsed_ok, handled, file, calls, text, original_error, artifact, exc,
                 processed_files, skipped_files, invalid_files, data_rows, csv>>

\* text = escape_control_chars_in_strings(text)
RunEscaper ==
  /\ pc = "escaper"
  /\ cleaned_text' = escape_control_chars_in_strings(cleaned_text)
  /\ stages' = Append(stages, Stage("escape_control_chars_in_strings", cleaned_text, cleaned_text'))
  /\ pc' = "reparse"
  /\ UNCHANGED <<joiner_locals, nfiles, parsed_ok, handled, file, calls, text, original_error, artifact, exc,
                 processed_files, skipped_files, invalid_files, data_rows, csv>>

\* variant of second_failure: the exception carries the repaired text
second_failure_CleanedText(oe, e2, t, cleaned) == JSONParseError(oe, e2, cleaned)

\* the exception robust_json_loads raises when the second parse fails with e2
second_failure(oe, e2, t, cleaned) == JSONParseError(oe, e2, t)

\* return json.loads(cleaned_text), or raise JSONParseError
SecondParse ==
  /\ pc = "reparse"
  /\ LET r == json_loads(cleaned_text)
     IN IF r.ok
        THEN /\ artifact' = r.val
             /\ parsed_ok' = parsed_ok + 1
             /\ pc' = "row"
             /\ UNCHANGED exc
        ELSE /\ exc' = second_failure(original_error, ErrorOf(r), text, cleaned_text)
             /\ pc' = "except"
             /\ UNCHANGED <<artifact, parsed_ok>>
  /\ UNCHANGED <<joiner_locals, nfiles, handled, file, calls, text, original_error, cleaned_text,
                 stages, processed_files, skipped_files, invalid_files, data_rows, csv>>

\* ------------------------------------------------------------------------
\* The handlers and the rest of the loop body
\* ------------------------------------------------------------------------
\* except JSONParseError as e
ExceptJSONParseError ==
  /\ pc = "except"
  /\ exc.type = "JSONParseError"
  /\ invalid_files' = invalid_files + 1
  /\ exc' = NoExc
  /\ EndIteration
  /\ UNCHANGED <<joiner_locals, nfiles, parsed_ok, handled, processed_files, skipped_files,
                 data_rows, csv>>

\* except Exception as ex
ExceptException ==
  /\ pc = "except"
  /\ exc.type # "JSONParseError"
  /\ invalid_files' = invalid_files + 1
  /\ exc' = NoExc
  /\ EndIteration
  /\ UNCHANGED <<joiner_locals, nfiles, parsed_ok, handled, processed_files, skipped_files,
                 data_rows, csv>>

\* artifact.get exists on a dict only
has_get(value) == value.t = "object"

\* the row is built and appended
BuildRow ==
  /\ pc = "row"
  /\ has_get(artifact)
  /\ data_rows' = Append(data_rows, build_row(artifact))
  /\ processed_files' = processed_files + 1
  /\ EndIteration
  /\ UNCHANGED <<joiner_locals, nfiles, parsed_ok, handled, exc, skipped_files, invalid_files, csv>>

\* artifact.get raises AttributeError outside the try: the script ends
BuildRowRaises ==
  /\ pc = "row"
  /\ ~has_get(artifact)
  /\ exc' = OtherExc("AttributeError", "artifact.get")
  /\ pc' = "aborted"
  /\ UNCHANGED <<joiner_locals, nfiles, parsed_ok, handled, file, calls, text, original_error, cleaned_text,
                 stages, artifact, processed_files, skipped_files, invalid_files,
                 data_rows, csv>>

\* writer.writeheader() and writer.writerow(row) for every row
WriteCsv ==
  /\ pc = "write"
  /\ csv' = [written |-> TRUE, header |-> fieldnames,
             rows |-> [k \in 1..Len(data_rows) |-> writerow(data_rows[k])]]
  /\ pc' = "summary"
  /\ UNCHANGED <<joiner_locals, nfiles, parsed_ok, handled, file, calls, text, original_error, cleaned_text,
                 stages, artifact, exc, processed_files, skipped_files,
                 invalid_files, data_rows>>

\* the summary is printed and the script ends
PrintSummary ==
  /\ pc = "summary"
  /\ pc' = "done"
  /\ UNCHANGED <<joiner_locals, nfiles, parsed_ok, handled, file, calls, text, original_error, cleaned_text,
                 stages, artifact, exc, processed_files, skipped_files,
                 invalid_files, data_rows, csv>>

Next ==
  \/ ForNext
  \/ ForExit
  \/ SkipEmpty
  \/ ReadFile
  \/ ReadFails
  \/ StrictParse
  \/ RunJoiner
  \/ RunNormalizer
  \/ RunEscaper
  \/ SecondParse
  \/ ExceptJSONParseError
  \/ ExceptException
  \/ BuildRow
  \/ BuildRowRaises
  \/ WriteCsv
  \/ PrintSummary

Spec == Init /\ [][Next]_vars

\* ------------------------------------------------------------------------
\* The repair stages on their own: each is a pure function of its text, so it
\* is applied to every text of FnTexts and every document of RunDocs, up to
\* MaxApply stages in a row; stages records each application.
\* ------------------------------------------------------------------------
FnInit ==
  /\ nfiles = 0
  /\ handled = 0
  /\ pc = "fn"
  /\ file = NoFile
  /\ calls = 0
  /\ parsed_ok = 0
  /\ text \in FnTexts \cup RunDocs
  /\ original_error = NoError
  /\ cleaned_text = text
  /\ stages = <<>>
  /\ artifact = NoValue
  /\ exc = NoExc
  /\ processed_files = 0
  /\ skipped_files = 0
  /\ invalid_files = 0
  /\ data_rows = <<>>
  /\ csv = NoCsv
  /\ NoJoinerCall

FnFrame ==
  UNCHANGED <<joiner_locals, nfiles, parsed_ok, handled, file, calls, text, original_error, artifact,
              processed_files, skipped_files, invalid_files, data_rows, csv>>

ApplyJoiner ==
  /\ pc = "fn"
  /\ Len(stages) < MaxApply
  /\ LET r == fix_multiline_strings(cleaned_text)
     IN IF r.err
        THEN /\ exc' = OtherExc("re.error", "fix_multiline_strings")
             /\ pc' = "fn_raised"
             /\ UNCHANGED <<cleaned_text, stages>>
        ELSE /\ cleaned_text' = r.text
             /\ stages' = Append(stages, Stage("fix_multiline_strings", cleaned_text, r.text))
             /\ UNCHANGED <<pc, exc>>
  /\ FnFrame

ApplyNormalizer ==
  /\ pc = "fn"
  /\ Len(stages) < MaxApply
  /\ cleaned_text' = fix_invalid_escapes(cleaned_text)
  /\ stages' = Append(stages, Stage("fix_invalid_escapes", cleaned_text, cleaned_text'))
  /\ UNCHANGED <<pc, exc>>
  /\ FnFrame

ApplyEscaper ==
  /\ pc = "fn"
  /\ Len(stages) < MaxApply
  /\ cleaned_text' = escape_control_chars_in_strings(cleaned_text)
  /\ stages' = Append(stages, Stage("escape_control_chars_in_strings", cleaned_text, cleaned_text'))
  /\ UNCHANGED <<pc, exc>>
  /\ FnFrame

FnNext == ApplyJoiner \/ ApplyNormalizer \/ ApplyEscaper

SpecFn == FnInit /\ [][FnNext]_vars

\* ------------------------------------------------------------------------
\* The line loop of fix_multiline_strings, one line at a time: SpecJoiner
\* calls it on every text of up to MaxLines lines drawn from JoinerLines.
\* ------------------------------------------------------------------------
MaxLines == 3

JoinerLines ==
  { RunKey \o <<QUOTE>>,
    RunKey \o <<SP, QUOTE, "x">>,
    RunKey \o <<QUOTE, SP>>,
    RunKey \o <<QUOTE, "x", QUOTE, ",">>,
    <<"n">>,
    <<"n", QUOTE>>,
    <<BSLASH, QUOTE, "r">>,
    <<"}">> }

JoinerTexts == {JoinLines(ls) : ls \in SeqsUpTo(JoinerLines, MaxLines)}

\* lines = text.splitlines() and the three assignments before the loop
JoinerCall ==
  /\ nfiles = 0
  /\ handled = 0
  /\ pc = "line"
  /\ file = NoFile
  /\ calls = 0
  /\ parsed_ok = 0
  /\ text \in JoinerTexts
  /\ original_error = NoError
  /\ cleaned_text = text
  /\ stages = <<>>
  /\ artifact = NoValue
  /\ exc = NoExc
  /\ processed_files = 0
  /\ skipped_files = 0
  /\ invalid_files = 0
  /\ data_rows = <<>>
  /\ csv = NoCsv
  /\ lines = splitlines(text)
  /\ line_no = 1
  /\ fixed_lines = JoinerInit.fixed_lines
  /\ in_multiline = JoinerInit.in_multiline
  /\ multiline_accum = JoinerInit.multiline_accum

JoinerFrame ==
  UNCHANGED <<nfiles, handled, file, calls, parsed_ok, text, original_error, stages,
              artifact, processed_files, skipped_files, invalid_files, data_rows,
              csv, lines>>

\* the locals at the head of the loop body
JoinerLocals ==
  [fixed_lines |-> fixed_lines, in_multiline |-> in_multiline,
   multiline_accum |-> multiline_accum, err |-> FALSE]

\* the loop body has run on the current line and left the locals as st
NextLine(st) ==
  /\ fixed_lines' = st.fixed_lines
  /\ in_multiline' = st.in_multiline
  /\ multiline_accum' = st.multiline_accum
  /\ line_no' = line_no + 1
  /\ UNCHANGED <<pc, exc, cleaned_text>>
  /\ JoinerFrame

\* not in_multiline, the line opens a "run" value: lines 52-56
JoinerOpen ==
  /\ pc = "line"
  /\ line_no <= Len(lines)
  /\ ~in_multiline
  /\ LET st == JoinerStep(JoinerLocals, lines[line_no])
     IN st.in_multiline /\ NextLine(st)

\* not in_multiline, any other line: line 57
JoinerEmit ==
  /\ pc = "line"
  /\ line_no <= Len(lines)
  /\ ~in_multiline
  /\ LET st == JoinerStep(JoinerLocals, lines[line_no])
     IN ~st.in_multiline /\ NextLine(st)

\* in_multiline, the line holds a double quote: lines 59-68
JoinerClose ==
  /\ pc = "line"
  /\ line_no <= Len(lines)
  /\ in_multiline
  /\ FindChar(lines[line_no], QUOTE) # 0
  /\ LET st == JoinerStep(JoinerLocals, lines[line_no])
     IN ~st.err /\ NextLine(st)

\* in_multiline, the line holds a double quote and re.sub raises re.error
JoinerCloseRaises ==
  /\ pc = "line"
  /\ line_no <= Len(lines)
  /\ in_multiline
  /\ FindChar(lines[line_no], QUOTE) # 0
  /\ JoinerStep(JoinerLocals, lines[line_no]).err
  /\ exc' = OtherExc("re.error", "fix_multiline_strings")
  /\ pc' = "raised"
  /\ UNCHANGED <<cleaned_text, line_no, fixed_lines, in_multiline, multiline_accum>>
  /\ JoinerFrame

\* in_multiline, the line holds no double quote: line 70
JoinerAccumulate ==
  /\ pc = "line"
  /\ line_no <= Len(lines)
  /\ in_multiline
  /\ FindChar(lines[line_no], QUOTE) = 0
  /\ NextLine(JoinerStep(JoinerLocals, lines[line_no]))

\* the loop is exhausted: return '\n'.join(fixed_lines)
JoinerReturn ==
  /\ pc = "line"
  /\ line_no > Len(lines)
  /\ cleaned_text' = JoinLines(fixed_lines)
  /\ pc' = "returned"
  /\ UNCHANGED <<exc, line_no, fixed_lines, in_multiline, multiline_accum>>
  /\ JoinerFrame

JoinerNext ==
  \/ JoinerOpen
  \/ JoinerEmit
  \/ JoinerClose
  \/ JoinerCloseRaises
  \/ JoinerAccumulate
  \/ JoinerReturn

SpecJoiner == JoinerCall /\ [][JoinerNext]_vars

\* ------------------------------------------------------------------------
\* Properties
\* ------------------------------------------------------------------------
JoinerName == "fix_multiline_strings"

NormalizerName == "fix_invalid_escapes"

EscaperName == "escape_control_chars_in_strings"

\* C1: robust_json_loads ends by returning a document or by raising
\* JSONParseError; no other exception leaves it, also not from a repair stage.
C1_OnlyParseFailureEscapes ==
  (pc = "except" /\ exc.by = "robust_json_loads") => exc.type = "JSONParseError"

\* C2: no file aborts the run: whatever the files hold, the script never ends
\* on an uncaught exception before the CSV is written.
C2_RunNeverAborts == pc # "aborted"

\* C3: repair is attempted only after the strict parse of the original text
\* failed; when the original text strict-parses no stage runs and the
\* returned document is the strict parse of the original text.
C3_RepairOnlyAfterStrictFailure ==
  /\ (pc \in {"joiner", "normalizer", "escaper", "reparse"} \/ stages # <<>>)
       => ~json_loads(file.text).ok
  /\ (pc = "row" /\ json_loads(file.text).ok)
       => (stages = <<>> /\ artifact = json_loads(file.text).val)

\* C3 witness: a well-formed document with a field was returned unrepaired
C3_Witness ==
  /\ pc = "row"
  /\ stages = <<>>
  /\ artifact.t = "object"
  /\ Len(artifact.kids) > 0

\* the lines of a "run" value that spans three lines
ThreeLines == <<<<"x">>, <<"n">>, <<"n">>>>

ClosingTails == {tail \in Tails : tail # <<>> /\ tail[1] = QUOTE}

\* the same document written correctly: the three lines on one line, joined
\* by the escape sequence \n
EscapedRunDoc(pre, opener, tail) ==
  pre \o opener \o <<"x", BSLASH, "n", "n", BSLASH, "n", "n">> \o tail

\* C4: for a document whose "run" value runs unterminated over 3 lines, the
\* output of fix_multiline_strings strict-parses to the document in which
\* "run" is the 3 lines joined by newline escapes and every other field is as
\* in the input.
C4_JoinerRoundTrip ==
  \A k \in 1..Len(stages) :
    \A pre \in Pres, opener \in Openers, tail \in ClosingTails :
      (/\ stages[k].stage = JoinerName
       /\ stages[k].in = RunDoc(pre, opener, ThreeLines[1], Tail(ThreeLines), tail))
        => (/\ json_loads(stages[k].out).ok
            /\ json_loads(stages[k].out).val
                 = json_loads(EscapedRunDoc(pre, opener, tail)).val)

\* no two backslashes of the text are adjacent
OnlySingleBackslashes(t) ==
  \A i \in 1..(Len(t) - 1) : ~(t[i] = BSLASH /\ t[i + 1] = BSLASH)

\* C5: on a text whose only corruption is single backslashes, a second pass
\* of fix_invalid_escapes returns the text of the first pass.
C5_NormalizerFixedPoint ==
  \A k \in 2..Len(stages) :
    (/\ stages[k - 1].stage = NormalizerName
     /\ stages[k].stage = NormalizerName
     /\ OnlySingleBackslashes(stages[k - 1].in))
      => stages[k].out = stages[k - 1].out

\* a call of robust_json_loads on a text that does not strict-parse has ended
RepairCallEnded ==
  /\ calls = 1
  /\ pc \in {"row", "except"}
  /\ exc.by # "open"
  /\ ~json_loads(text).ok

\* C6: whenever the strict parse fails, the three stages run exactly once
\* each, joiner then normalizer then escaper, each on the output of the one
\* before, and the second parse reads the output of the last.
C6_StagesInOrder ==
  RepairCallEnded =>
    /\ Len(stages) = 3
    /\ stages[1].stage = JoinerName
    /\ stages[2].stage = NormalizerName
    /\ stages[3].stage = EscaperName
    /\ stages[1].in = text
    /\ stages[2].in = stages[1].out
    /\ stages[3].in = stages[2].out
    /\ cleaned_text = stages[3].out

\* C7: when both parses fail, the JSONParseError raised holds the error of
\* the first parse, the error of the second parse and the text as read, and
\* no document is returned.
C7_ParseFailureContents ==
  /\ (pc = "except" /\ exc.type = "JSONParseError") =>
       /\ ~json_loads(file.text).ok
       /\ ~json_loads(cleaned_text).ok
       /\ exc.original_error = ErrorOf(json_loads(file.text))
       /\ exc.cleaned_error = ErrorOf(json_loads(cleaned_text))
       /\ exc.text = file.text
       /\ artifact = NoValue
  /\ (pc = "except" /\ Len(stages) = 3) => exc.type = "JSONParseError"

\* C7 witness: a failure whose two errors differ and whose repaired text
\* differs from the text read
C7_Witness ==
  /\ pc = "except"
  /\ exc.type = "JSONParseError"
  /\ exc.original_error # exc.cleaned_error
  /\ cleaned_text # file.text

\* number of backslashes that directly precede j, counted back to a at most
RECURSIVE BackslashesBefore(_, _, _)
BackslashesBefore(t, a, j) ==
  IF j - 1 > a /\ t[j - 1] = BSLASH THEN 1 + BackslashesBefore(t, a, j - 1) ELSE 0

\* the quote that closes the span opened at a: the next quote not preceded
\* by an escaping backslash; 0 when there is none
SpanClose(t, a) ==
  LET js == {j \in (a + 1)..Len(t) :
               t[j] = QUOTE /\ BackslashesBefore(t, a, j) % 2 = 0}
  IN IF js = {} THEN 0 ELSE MinOf(js)

\* a character as it is written inside a span
InSpan(c) ==
  CASE c = NL -> <<BSLASH, "n">>
    [] c = CR -> <<BSLASH, "r">>
    [] c = TAB -> <<BSLASH, "t">>
    [] OTHER -> <<c>>

RECURSIVE InSpanAll(_)
InSpanAll(str) == IF str = <<>> THEN <<>> ELSE InSpan(Head(str)) \o InSpanAll(Tail(str))

RECURSIVE SpanwiseEscaped(_, _)
\* the text from i on: spans rewritten character by character, everything
\* outside them copied
SpanwiseEscaped(t, i) ==
  IF i > Len(t) THEN <<>>
  ELSE IF t[i] = QUOTE /\ SpanClose(t, i) # 0
       THEN <<QUOTE>> \o InSpanAll(SubSeq(t, i + 1, SpanClose(t, i) - 1)) \o <<QUOTE>>
              \o SpanwiseEscaped(t, SpanClose(t, i) + 1)
  ELSE <<t[i]>> \o SpanwiseEscaped(t, i + 1)

\* C8: escape_control_chars_in_strings rewrites raw newline, carriage return
\* and tab inside quoted spans as two-character escapes and leaves every
\* character outside the spans as it is, in the same order.
C8_EscaperConfinedToSpans ==
  \A k \in 1..Len(stages) :
    stages[k].stage = EscaperName
      => stages[k].out = SpanwiseEscaped(stages[k].in, 1)

\* C8 witness: a text with a newline outside and a tab inside a span, the
\* tab escaped and the newline kept
C8_Witness ==
  \E k \in 1..Len(stages) :
    /\ stages[k].stage = EscaperName
    /\ stages[k].in = <<NL, QUOTE, TAB, QUOTE>>
    /\ stages[k].out = <<NL, QUOTE, BSLASH, "t", QUOTE>>

\* C9: when the run has ended, the CSV holds one data row per file that
\* parsed, as many as processed_files, and every row has the declared
\* fieldnames as its columns in the declared order.
C9_SchemaStability ==
  (pc \in {"done", "aborted"}) =>
    /\ csv.written
    /\ csv.header = fieldnames
    /\ Len(csv.rows) = parsed_ok
    /\ parsed_ok = processed_files
    /\ \A k \in 1..Len(csv.rows) : Len(csv.rows[k]) = Len(fieldnames)
    /\ \A k \in 1..Len(data_rows) :
         [j \in 1..Len(data_rows[k]) |-> data_rows[k][j].field] = fieldnames

\* a step that ends the iteration of `file`
IterationEnds == pc # "for" /\ pc' = "for"

\* the step that handles a zero-byte file counts it as skipped and calls
\* nothing
EmptyFileStep ==
  (pc = "getsize" /\ Len(file.text) = 0) =>
    /\ calls = 0
    /\ skipped_files' = skipped_files + 1
    /\ invalid_files' = invalid_files
    /\ processed_files' = processed_files
    /\ IterationEnds

\* C10 as stated: a zero-byte file is skipped without a call of
\* robust_json_loads, and every non-empty file gets exactly one call.
C10_EveryNonEmptyFileParsedOnce ==
  /\ [](Len(file.text) = 0 => calls = 0)
  /\ [][(IterationEnds /\ Len(file.text) # 0) => calls = 1]_vars
  /\ [][EmptyFileStep]_vars

\* C10 amended: a zero-byte file is skipped without a call of
\* robust_json_loads; a non-empty file gets at most one call, exactly one
\* when it could be opened and read, and none when open() fails, which counts
\* the file as invalid.
C10_EmptyFileShortCircuit ==
  /\ [](Len(file.text) = 0 => calls = 0)
  /\ [](calls <= 1)
  /\ [][(IterationEnds /\ Len(file.text) # 0)
          => calls = (IF file.readable THEN 1 ELSE 0)]_vars
  /\ [][(IterationEnds /\ Len(file.text) # 0 /\ ~file.readable)
          => invalid_files' = invalid_files + 1]_vars
  /\ [][EmptyFileStep]_vars

\* C10 witness: the only file so far was empty and has been skipped
C10_Witness ==
  /\ pc = "for"
  /\ handled = 1
  /\ calls = 0
  /\ skipped_files = 1
  /\ invalid_files = 0
  /\ processed_files = 0
  /\ parsed_ok = 0

\* the backslash at j is not immediately followed by " \ / b f n r t u
LoneBackslash(t, j) ==
  /\ t[j] = BSLASH
  /\ (j = Len(t) \/ t[j + 1] \notin {QUOTE, BSLASH, "/", "b", "f", "n", "r", "t", "u"})

\* number of such backslashes before position i
LoneBefore(t, i) == Cardinality({j \in 1..(i - 1) : LoneBackslash(t, j)})

RowBuilt == pc = "row" /\ pc' = "for"

\* the document has the field
HasField(doc, f) == \E k \in 1..Len(doc.kids) : doc.kids[k].s = f

\* the document's value of a field it has
FieldOf(doc, f) == doc.kids[CHOOSE k \in 1..Len(doc.kids) : doc.kids[k].s = f].kids[1]

\* the cell of a field whose source value is the document's field f
CellFrom(doc, f) ==
  IF ~HasField(doc, f) THEN EmptyString
  ELSE IF FieldOf(doc, f).t = "null" THEN EmptyString
  ELSE IF FieldOf(doc, f).t \in {"object", "array"}
       THEN Node("string", json_dumps(FieldOf(doc, f)), <<>>)
  ELSE FieldOf(doc, f)

\* the row appended by the step
NewRow == data_rows'[Len(data_rows')]

CellOf(row, f) == row[CHOOSE k \in 1..Len(row) : row[k].field = f].value

C15_CountersPartitionFiles ==
  /\ []((pc \in {"for", "write", "summary", "done", "aborted"})
          => processed_files + skipped_files + invalid_files = handled)
  /\ [][/\ processed_files' \in {processed_files, processed_files + 1}
        /\ skipped_files' \in {skipped_files, skipped_files + 1}
        /\ invalid_files' \in {invalid_files, invalid_files + 1}
        /\ (processed_files' + skipped_files' + invalid_files')
             - (processed_files + skipped_files + invalid_files) \in {0, 1}
        /\ Len(data_rows') = Len(data_rows) + (processed_files' - processed_files)
        /\ SubSeq(data_rows', 1, Len(data_rows)) = data_rows]_vars
  /\ [][(pc = "except" /\ exc.type = "JSONParseError")
          => /\ invalid_files' = invalid_files + 1
             /\ processed_files' = processed_files
             /\ skipped_files' = skipped_files]_vars

\* C16: the current_image_tag cell is the document's current_image_tag when
\* the document has one, and its image_tag only when it has none.
C16_CurrentImageTagPreferred ==
  [][RowBuilt =>
       CellOf(NewRow, current_image_tag)
         = (IF HasField(artifact, current_image_tag)
            THEN CellFrom(artifact, current_image_tag)
            ELSE CellFrom(artifact, image_tag))]_vars

\* continuation lines that hold no double quote
OpenConts ==
  SeqsUpTo({c \in ContLines : FindChar(c, QUOTE) = 0}, MaxCont)

\* what the document holds between its opening quote and its tail
RunBody(first, conts) == first \o ContText(conts, 1, <<>>)

\* C13: when a "run" value opens on one line and a later line holds the
\* closing quote, the output of fix_multiline_strings holds the opening line
\* and the lines up to the closing quote on one line, every line break
\* between them replaced by backslash n.
C13_JoinedOnOneLine ==
  \A k \in 1..Len(stages) :
    \A pre \in Pres, opener \in Openers, first \in Firsts \ {<<>>},
       conts \in OpenConts \ {<<>>}, tail \in ClosingTails :
      (/\ stages[k].stage = JoinerName
       /\ stages[k].in = RunDoc(pre, opener, first, conts, tail))
        => StartsWithAt(stages[k].out, 1,
                        pre \o opener
                          \o Replace(RunBody(first, conts), NL, <<BSLASH, "n">>))

\* tails that hold no double quote: the "run" value is never closed
UnclosedTails == {tail \in Tails : FindChar(tail, QUOTE) = 0}

UnclosedRunDocs ==
  {RunDoc(pre, opener, first, conts, tail) :
     pre \in Pres, opener \in Openers, first \in Firsts \ {<<>>},
     conts \in OpenConts, tail \in UnclosedTails}

\* C14: when the input ends while a "run" value is still accumulated, the
\* output of fix_multiline_strings is the input up to and including the
\* opening quote (the accumulated text is dropped) and no error is raised.
C14_UnclosedRunDiscarded ==
  /\ \A k \in 1..Len(stages) :
       (stages[k].stage = JoinerName /\ stages[k].in \in UnclosedRunDocs)
         => \A pre \in Pres, opener \in Openers, first \in Firsts \ {<<>>},
               conts \in OpenConts, tail \in UnclosedTails :
              stages[k].in = RunDoc(pre, opener, first, conts, tail)
                => stages[k].out = pre \o opener
  /\ pc = "fn_raised" => cleaned_text \notin UnclosedRunDocs

\* C14 witness: {"run":"x / n} comes out as {"run":"
C14_Witness ==
  \E k \in 1..Len(stages) :
    /\ stages[k].stage = JoinerName
    /\ stages[k].in = RunDoc(<<"{">>, RunKey \o <<QUOTE>>, <<"x">>, <<<<"n">>>>, <<"}">>)
    /\ stages[k].out = <<"{">> \o RunKey \o <<QUOTE>>

\* the loop body is about to run on a line
AtLine == pc = "line" /\ line_no <= Len(lines)

\* the line holds "run": at p, then whitespace only up to q, where its last
\* double quote stands
OpeningQuoteAt(l, p, q) ==
  /\ StartsWithAt(l, p, RunKey)
  /\ q >= p + Len(RunKey)
  /\ q <= Len(l)
  /\ \A i \in (p + Len(RunKey))..(q - 1) : l[i] \in ReWhitespace
  /\ l[q] = QUOTE
  /\ \A i \in (q + 1)..Len(l) : l[i] # QUOTE

\* the line opens a multi-line "run" value: it holds such an opening quote
\* and something other than whitespace after it
OpensRun(l) ==
  \E p \in 1..Len(l), q \in 1..Len(l) :
    /\ OpeningQuoteAt(l, p, q)
    /\ \E i \in (q + 1)..Len(l) : l[i] \notin ReWhitespace

\* the "run" value of the line has no content after the opening quote
OpensNothing(l) ==
  \E p \in 1..Len(l), q \in 1..Len(l) :
    /\ OpeningQuoteAt(l, p, q)
    /\ \A i \in (q + 1)..Len(l) : l[i] \in ReWhitespace

\* C17: while scanning, a line that does not open a multi-line "run" value
\* is appended to the output unchanged; for a text none of whose lines opens
\* one, the output lines are the input lines.
C17_ScanningEmitsUnchanged ==
  /\ [][(AtLine /\ ~in_multiline /\ ~OpensRun(lines[line_no]))
          => /\ fixed_lines' = Append(fixed_lines, lines[line_no])
             /\ ~in_multiline']_vars
  /\ []((pc = "returned" /\ \A k \in 1..Len(lines) : ~OpensRun(lines[k]))
          => /\ fixed_lines = lines
             /\ cleaned_text = JoinLines(lines))

\* C17 witness: three lines, none opening a value, returned as they came
C17_Witness ==
  /\ pc = "returned"
  /\ lines = <<RunKey \o <<QUOTE, SP>>, RunKey \o <<QUOTE, "x", QUOTE, ",">>, <<"}">>>>
  /\ fixed_lines = lines

\* C18: scanning turns into accumulating on a line exactly when the line
\* holds "run": then optional whitespace then a double quote that is the last
\* of the line, and the stripped line does not end in a double quote; a line
\* with nothing but whitespace after the opening quote is emitted unchanged
\* and scanning goes on.
C18_AccumulationStartsOnOpeningLine ==
  [][(AtLine /\ ~in_multiline)
       => /\ in_multiline' <=> OpensRun(lines[line_no])
          /\ OpensNothing(lines[line_no])
               => /\ ~in_multiline'
                  /\ fixed_lines' = Append(fixed_lines, lines[line_no])]_vars

\* C18 witness: "run":"<space> was emitted whole, then "run": "x started
\* accumulation
C18_Witness ==
  /\ pc = "line"
  /\ lines = <<RunKey \o <<QUOTE, SP>>, RunKey \o <<SP, QUOTE, "x">>>>
  /\ line_no = 3
  /\ in_multiline
  /\ fixed_lines = <<RunKey \o <<QUOTE, SP>>, RunKey \o <<SP, QUOTE>>>>
  /\ multiline_accum = <<"x">>

\* the text ends with the suffix
EndsWith(t, suffix) ==
  /\ Len(suffix) <= Len(t)
  /\ SubSeq(t, Len(t) - Len(suffix) + 1, Len(t)) = suffix

\* C19: while accumulating, a line that holds a double quote, escaped or
\* not, ends the accumulation: the text before its first double quote joins
\* the value on the opening line, the text from that quote on is appended as
\* a new output line, the accumulator is emptied and scanning resumes.
C19_AccumulationEndsAtFirstQuote ==
  [][(AtLine /\ in_multiline /\ FindChar(lines[line_no], QUOTE) # 0)
       => LET l == lines[line_no]
              idx == FindChar(l, QUOTE)
              n == Len(fixed_lines)
          IN /\ pc' = "line"
             /\ ~in_multiline'
             /\ multiline_accum' = <<>>
             /\ Len(fixed_lines') = n + 1
             /\ fixed_lines'[n + 1] = Drop(l, idx - 1)
             /\ EndsWith(fixed_lines'[n], Take(l, idx - 1))
             /\ Take(fixed_lines', n - 1) = Take(fixed_lines, n - 1)]_vars

====
